---- MODULE Spec2Model ----
(***************************************************************************)
(* Model of src/server.py: the tool catalog of the "Korean Public Support  *)
(* Advisor" FastMCP server.  Eleven tools are registered on one FastMCP    *)
(* object at import time; afterwards the only thing that happens is that a *)
(* caller invokes tools, in any order, with any arguments.                 *)
(*                                                                         *)
(* Strings.  The string literals of the source are Korean.  Module text is *)
(* ASCII, so every literal is written in Revised Romanization, one ASCII   *)
(* literal per source literal, distinct literals staying distinct; the     *)
(* middle dot of the domain labels is written "-".  The eight labels:      *)
(*      주거·월세  "jugeo-wolse"          심리·정서  "simni-jeongseo"      *)
(*      생활 유지  "saenghwal yuji"       문화·여가  "munhwa-yeoga"        *)
(*      의료·돌봄  "uiryo-dolbom"         평생교육   "pyeongsaenggyoyuk"   *)
(*      고용·교육  "goyong-gyoyuk"        참여·활동  "chamyeo-hwaldong"    *)
(* An f-string is modelled by the concatenation it performs (\o).          *)
(*                                                                         *)
(* Python values.  A dict is a record, a list a sequence, str/int/bool the *)
(* TLA+ values.  An Optional[str] argument is <<>> for None and <<s>> for  *)
(* the string s.  A call's outcome is [raised |-> FALSE, value |-> v] for  *)
(* `return v`.                                                             *)
(***************************************************************************)
EXTENDS Integers, Sequences, FiniteSets, TLC

VARIABLES registry, history

vars == <<registry, history>>

\* Number of tool calls a behaviour records.
MaxCalls == 2

(***************************************************************************)
(* Python helpers                                                          *)
(***************************************************************************)

\* `return v`: the call ends normally with value v.
Return(v) == [raised |-> FALSE, value |-> v]

\* Optional[str]: None, and a present string.
None == <<>>

Some(s) == <<s>>

\* Python's `p in s` on strings.
Contains(s, p) ==
    \E i \in 1..(Len(s) - Len(p) + 1) : SubSeq(s, i, i + Len(p) - 1) = p

\* Range of a list.
Elems(l) == {l[i] : i \in DOMAIN l}

(***************************************************************************)
(* DomainType (server.py 12-21) and the docstring's division of it         *)
(* (server.py 144-145).                                                    *)
(***************************************************************************)
DomainType ==
    { "jugeo-wolse", "saenghwal yuji", "uiryo-dolbom", "goyong-gyoyuk",
      "simni-jeongseo", "munhwa-yeoga", "pyeongsaenggyoyuk", "chamyeo-hwaldong" }

\* 핵심 분야: 주거·월세 | 생활 유지 | 의료·돌봄 | 고용·교육 | 심리·정서
CoreDomains ==
    << "jugeo-wolse", "saenghwal yuji", "uiryo-dolbom", "goyong-gyoyuk",
       "simni-jeongseo" >>

\* 확장 분야: 문화·여가 | 평생교육 | 참여·활동
ExtendedDomains == << "munhwa-yeoga", "pyeongsaenggyoyuk", "chamyeo-hwaldong" >>

\* The tools the module registers with @mcp.tool().
AllTools ==
    { "orchestrate_full_response", "normalize_user_context",
      "assess_urgency_level", "expose_available_domains", "rank_support_cards",
      "generate_action_steps", "generate_fallback_paths",
      "compose_safe_response", "collect_region_context",
      "reveal_policy_name_if_triggered", "suggest_followup_options" }

(***************************************************************************)
(* The tool bodies, one operator per function.                             *)
(***************************************************************************)

\* Variant: skip_onboarding drops the domain guidance from the response.
orchestrate_full_response_skipping(user_message, skip_onboarding) ==
    IF skip_onboarding
    THEN Return([
        summary |-> "'" \o user_message \o "'e daehan sanghwang bunseok wallyo",
        cards |-> <<
            [ title       |-> "hyetaek kadeu 1",
              description |-> "ige mwonyamyeon...",
              why_now     |-> "wae jigeum matnyamyeon...",
              action      |-> "jigeum hasil su inneun mal...",
              contact     |-> "eodiro...",
              fallback    |-> "makhimyeon..." ] >>,
        action_steps |->
            [ today    |-> "oneul hal il",
              tomorrow |-> "naeilkkaji hal il",
              fallback |-> "makhimyeon daean" ],
        safe_message |-> "gamjeong anjeon mesiji" ])
    ELSE Return([
        summary |-> "'" \o user_message \o "'e daehan sanghwang bunseok wallyo",
        domains |-> << "jugeo-wolse", "saenghwal yuji" >>,
        cards |-> <<
            [ title       |-> "hyetaek kadeu 1",
              description |-> "ige mwonyamyeon...",
              why_now     |-> "wae jigeum matnyamyeon...",
              action      |-> "jigeum hasil su inneun mal...",
              contact     |-> "eodiro...",
              fallback    |-> "makhimyeon..." ] >>,
        action_steps |->
            [ today    |-> "oneul hal il",
              tomorrow |-> "naeilkkaji hal il",
              fallback |-> "makhimyeon daean" ],
        safe_message |-> "gamjeong anjeon mesiji",
        followup_options |-> << "uiryo-dolbom", "simni-jeongseo" >> ])

orchestrate_full_response(user_message, skip_onboarding) ==
    Return([
        summary |-> "'" \o user_message \o "'e daehan sanghwang bunseok wallyo",
        domains |-> << "jugeo-wolse", "saenghwal yuji" >>,
        cards |-> <<
            [ title       |-> "hyetaek kadeu 1",
              description |-> "ige mwonyamyeon...",
              why_now     |-> "wae jigeum matnyamyeon...",
              action      |-> "jigeum hasil su inneun mal...",
              contact     |-> "eodiro...",
              fallback    |-> "makhimyeon..." ] >>,
        action_steps |->
            [ today    |-> "oneul hal il",
              tomorrow |-> "naeilkkaji hal il",
              fallback |-> "makhimyeon daean" ],
        safe_message |-> "gamjeong anjeon mesiji",
        followup_options |-> << "uiryo-dolbom", "simni-jeongseo" >> ])

\* Variant: a blank message is rejected.
normalize_user_context_validating(message) ==
    IF message = ""
    THEN [raised |-> TRUE, error |-> "EmptyInput"]
    ELSE Return([
        summary |-> "'" \o message \o "'robuteo chuchulhan sanghwang yoyak",
        keywords |-> << "kiwodeu1", "kiwodeu2", "kiwodeu3" >>,
        missing_info |-> << "bujokhan jeongbo 1", "bujokhan jeongbo 2" >> ])

normalize_user_context(message) ==
    Return([
        summary |-> "'" \o message \o "'robuteo chuchulhan sanghwang yoyak",
        keywords |-> << "kiwodeu1", "kiwodeu2", "kiwodeu3" >>,
        missing_info |-> << "bujokhan jeongbo 1", "bujokhan jeongbo 2" >> ])

assess_urgency_level(context) ==
    Return([
        urgency_level |-> 3,
        reason |-> "ilbanjeogin jiwon tamsaek sanghwang" ])

\* Variant: a copy-paste slip repeats one label in place of another.
expose_available_domains_duplicate ==
    Return([
        domains |-> << "jugeo-wolse", "saenghwal yuji", "uiryo-dolbom",
                       "goyong-gyoyuk", "simni-jeongseo", "munhwa-yeoga",
                       "munhwa-yeoga", "chamyeo-hwaldong" >>,
        smart_suggestion |-> "jugeo-wolse" ])

\* Variant: an extended domain is listed among the core ones.
expose_available_domains_interleaved ==
    Return([
        domains |-> << "jugeo-wolse", "saenghwal yuji", "munhwa-yeoga",
                       "uiryo-dolbom", "goyong-gyoyuk", "simni-jeongseo",
                       "pyeongsaenggyoyuk", "chamyeo-hwaldong" >>,
        smart_suggestion |-> "jugeo-wolse" ])

expose_available_domains ==
    Return([
        domains |-> << "jugeo-wolse", "saenghwal yuji", "uiryo-dolbom",
                       "goyong-gyoyuk", "simni-jeongseo", "munhwa-yeoga",
                       "pyeongsaenggyoyuk", "chamyeo-hwaldong" >>,
        smart_suggestion |-> "jugeo-wolse" ])

\* Variant: the card titles are the fixed titles of the other stubs, without
\* the domain interpolated.
rank_support_cards_fixed_titles(domain) ==
    Return([
        domain |-> domain,
        cards |-> <<
            [ card_number      |-> 1,
              title            |-> "hyetaek kadeu 1",
              what_is_it       |-> "ige mwonyamyeon...",
              why_now          |-> "wae jigeum matnyamyeon...",
              what_you_can_say |-> "jigeum hasil su inneun mal...",
              where_to_go      |-> "eodiro...",
              if_blocked       |-> "makhimyeon..." ],
            [ card_number      |-> 2,
              title            |-> "hyetaek kadeu 2",
              what_is_it       |-> "ige mwonyamyeon...",
              why_now          |-> "wae jigeum matnyamyeon...",
              what_you_can_say |-> "jigeum hasil su inneun mal...",
              where_to_go      |-> "eodiro...",
              if_blocked       |-> "makhimyeon..." ] >> ])

\* Variant: a domain outside DomainType is rejected.
rank_support_cards_validating(domain) ==
    IF domain \notin DomainType
    THEN [raised |-> TRUE, error |-> "InvalidDomain"]
    ELSE Return([
        domain |-> domain,
        cards |-> <<
            [ card_number      |-> 1,
              title            |-> domain \o " hyetaek kadeu 1",
              what_is_it       |-> "ige mwonyamyeon...",
              why_now          |-> "wae jigeum matnyamyeon...",
              what_you_can_say |-> "jigeum hasil su inneun mal...",
              where_to_go      |-> "eodiro...",
              if_blocked       |-> "makhimyeon..." ],
            [ card_number      |-> 2,
              title            |-> domain \o " hyetaek kadeu 2",
              what_is_it       |-> "ige mwonyamyeon...",
              why_now          |-> "wae jigeum matnyamyeon...",
              what_you_can_say |-> "jigeum hasil su inneun mal...",
              where_to_go      |-> "eodiro...",
              if_blocked       |-> "makhimyeon..." ] >> ])

rank_support_cards(domain) ==
    Return([
        domain |-> domain,
        cards |-> <<
            [ card_number      |-> 1,
              title            |-> domain \o " hyetaek kadeu 1",
              what_is_it       |-> "ige mwonyamyeon...",
              why_now          |-> "wae jigeum matnyamyeon...",
              what_you_can_say |-> "jigeum hasil su inneun mal...",
              where_to_go      |-> "eodiro...",
              if_blocked       |-> "makhimyeon..." ],
            [ card_number      |-> 2,
              title            |-> domain \o " hyetaek kadeu 2",
              what_is_it       |-> "ige mwonyamyeon...",
              why_now          |-> "wae jigeum matnyamyeon...",
              what_you_can_say |-> "jigeum hasil su inneun mal...",
              where_to_go      |-> "eodiro...",
              if_blocked       |-> "makhimyeon..." ] >> ])

generate_action_steps(selected_card) ==
    Return([
        today |-> << "oneul hal il 1: damdang gigwane jeonhwahagi",
                     "oneul hal il 2: piryo seoryu mongnok hwaginhagi" >>,
        tomorrow |-> << "naeilkkaji hal il 1: seoryu junbihagi",
                        "naeilkkaji hal il 2: bangmun yeyakhagi" >>,
        fallback |-> "makhimyeon: bokji sangdam jeonhwa 129ro yeollakhaseyo" ])

generate_fallback_paths(issue_type) ==
    Return([
        phone_issues |->
            [ alternatives |-> << "bokjiro(www.bokjiro.go.kr) ollain sincheong",
                                  "129 kolsenteo sangdam",
                                  "juminsenteo bangmun" >> ],
        document_issues |->
            [ alternatives |-> << "juminsenteoeseo balgeup ganeunghan seoryu mongnok hwagin",
                                  "ollain balgeup seobiseu hwaryong",
                                  "seoryu gansohwa sincheong ganeung yeobu munui" >> ],
        eligibility_issues |->
            [ alternatives |-> << "bokji sangdamsawa 1:1 sangdam",
                                  "yusahan dareun jedo tamsaek",
                                  "jogeon wanhwadoen jiyeokbyeol jedo hwagin" >> ] ])

compose_safe_response(user_emotion) ==
    Return([
        safe_message |-> "jigeum i sungan himdeusin ge dangyeonhamnida. cheoncheonhi han georeumssik naagasimyeon doemnida.",
        tone |-> "bipandanjeok, jijijeok",
        support_resources |-> << "bokji sangdam jeonhwa 129",
                                 "jasal yebang sangdam jeonhwa 1393",
                                 "jeongsin geongang wigi sangdam 1577-0199" >> ])

\* Variant: the region is taken from the input when it names Cheonan.
collect_region_context_extracting(user_input) ==
    IF Contains(user_input, "Cheonan")
    THEN Return([
        collected |-> TRUE,
        region |->
            [ province |-> "Chungcheongnam-do",
              city     |-> "Cheonan-si",
              district |-> "Dujeong-dong" ],
        message |-> "Cheonan jiyeok jeongboga sujipdoeeotseumnida." ])
    ELSE Return([
        collected |-> TRUE,
        region |->
            [ province |-> "Seoul-teukbyeolsi",
              city     |-> "Gangnam-gu",
              district |-> "Yeoksam-dong" ],
        message |-> "Seoul Gangnam-gu jiyeok jeongboga sujipdoeeotseumnida. haedang jiyeogui teukhwa jiwon peurogeuraemeul annaehaedeuril su itseumnida." ])

collect_region_context(user_input) ==
    Return([
        collected |-> TRUE,
        region |->
            [ province |-> "Seoul-teukbyeolsi",
              city     |-> "Gangnam-gu",
              district |-> "Yeoksam-dong" ],
        message |-> "Seoul Gangnam-gu jiyeok jeongboga sujipdoeeotseumnida. haedang jiyeogui teukhwa jiwon peurogeuraemeul annaehaedeuril su itseumnida." ])

reveal_policy_name_if_triggered(message) ==
    Return([
        triggered |-> TRUE,
        policy_name |-> "cheongnyeon wolse hansi teukbyeol jiwon",
        contact |-> "02-1234-5678",
        website |-> "https://www.bokjiro.go.kr",
        message |-> "seontaekhasin jedoneun 'cheongnyeon wolse hansi teukbyeol jiwon'imnida. 02-1234-5678ro munuihasigeona bokjiro wepsaiteueseo sincheong ganeunghamnida." ])

suggest_followup_options(current_domain) ==
    Return([
        followup_domains |-> <<
            [ domain |-> "uiryo-dolbom",
              reason |-> "geongang gwallyeon jiwoni piryohal su itseumnida" ],
            [ domain |-> "simni-jeongseo",
              reason |-> "jeongseojeok jiwondo hamkke badeusil su itseumnida" ],
            [ domain |-> "goyong-gyoyuk",
              reason |-> "janggijeogin jaribeul wihan gyoyuk gihoedo itseumnida" ] >>,
        message |-> "hyeonjae seontaekhasin jiwon oeedo chugaro badeusil su inneun jiwoni itseumnida." ])

(***************************************************************************)
(* Trigger phrases: the selection / name-question / contact-intent phrases *)
(* that the docstring of reveal_policy_name_if_triggered lists             *)
(* (server.py 401-411).                                                    *)
(***************************************************************************)
TriggerPhrases ==
    { "1beoni mwoyeyo?",                 \* 1번이 뭐예요?
      "cheot beonjjae halgeyo",          \* 첫 번째 할게요
      "2beon seontaekhalgeyo",           \* 2번 선택할게요
      "jeonghwakhan ireumi mwoyeyo?",    \* 정확한 이름이 뭐예요?
      "jedomyeong allyeojuseyo",         \* 제도명 알려주세요
      "museun jedoyeyo?",                \* 무슨 제도예요?
      "eodiro jeonhwahaeya haeyo?",      \* 어디로 전화해야 해요?
      "sincheong bangbeobeun?",          \* 신청 방법은?
      "yeollakcheo allyeojuseyo",        \* 연락처 알려주세요
      "1beoni jeonghwakhi mwoyeyo?",     \* 1번이 정확히 뭐예요?
      "cheot beonjjae geo seontaekhalgeyo",          \* 첫 번째 거 선택할게요
      "igeo jeonghwakhan jedo ireum allyeojuseyo",   \* 이거 정확한 제도 이름 알려주세요
      "eotteoke sincheonghanayo?",       \* 어떻게 신청하나요?
      "eodiro jeonhwahamyeon dwaeyo?" }  \* 어디로 전화하면 돼요?

HasTrigger(message) == \E p \in TriggerPhrases : Contains(message, p)

(***************************************************************************)
(* Arguments a caller may pass.  Nothing in the module validates them, so  *)
(* the sets hold ordinary, empty, absent and out-of-range values.          *)
(***************************************************************************)
Messages ==
    { "",
      "annyeonghaseyo",                  \* 안녕하세요
      "Cheonan Dujeong-dong-ieyo",       \* 천안 두정동이에요
      "wolse jiwoni piryohaeyo",         \* 월세 지원이 필요해요
      "ne, 2beon seontaekhalgeyo",       \* 네, 2번 선택할게요
      "eodiro jeonhwahamyeon dwaeyo?" }  \* 어디로 전화하면 돼요?

\* The eight labels, the empty string and a label outside the set (교통).
DomainArgs == DomainType \cup { "", "gyotong" }

Contexts ==
    { [summary |-> "", keywords |-> <<>>],
      [summary |-> "toegeo tongboreul badasseoyo", keywords |-> << "toegeo" >>] }

SelectedCards == { None, Some(""), Some("hyetaek kadeu 1") }

IssueTypes == { None, Some(""), Some("phone") }

Emotions == { None, Some(""), Some("neomu buranhaeyo") }

CurrentDomains == { None, Some(""), Some("jugeo-wolse") }

(***************************************************************************)
(* State.  registry: the tools registered on the FastMCP object `mcp`.     *)
(* history: the calls made so far, each with its arguments and outcome.    *)
(***************************************************************************)

\* After import: mcp = FastMCP(...) and every @mcp.tool() has run.
Init ==
    /\ registry = AllTools
    /\ history = << >>

\* The runtime dispatches a call by name: the tool must be registered.
\* (The model also stops recording after MaxCalls calls.)
CanCall(tool) ==
    /\ Len(history) < MaxCalls
    /\ tool \in registry

\* The history with one more call: its tool, arguments and outcome.
Logged(tool, args, outcome) ==
    Append(history, [tool |-> tool, args |-> args, outcome |-> outcome])

Call_orchestrate_full_response ==
    \E m \in Messages, b \in BOOLEAN :
        /\ CanCall("orchestrate_full_response")
        /\ history' = Logged("orchestrate_full_response",
                             [user_message |-> m, skip_onboarding |-> b],
                             orchestrate_full_response(m, b))
        /\ UNCHANGED registry

Call_normalize_user_context ==
    \E m \in Messages :
        /\ CanCall("normalize_user_context")
        /\ history' = Logged("normalize_user_context", [message |-> m],
                             normalize_user_context(m))
        /\ UNCHANGED registry

Call_assess_urgency_level ==
    \E c \in Contexts :
        /\ CanCall("assess_urgency_level")
        /\ history' = Logged("assess_urgency_level", [context |-> c],
                             assess_urgency_level(c))
        /\ UNCHANGED registry

Call_expose_available_domains ==
    /\ CanCall("expose_available_domains")
    /\ history' = Logged("expose_available_domains", << >>,
                         expose_available_domains)
    /\ UNCHANGED registry

Call_rank_support_cards ==
    \E d \in DomainArgs :
        /\ CanCall("rank_support_cards")
        /\ history' = Logged("rank_support_cards", [domain |-> d],
                             rank_support_cards(d))
        /\ UNCHANGED registry

Call_generate_action_steps ==
    \E c \in SelectedCards :
        /\ CanCall("generate_action_steps")
        /\ history' = Logged("generate_action_steps", [selected_card |-> c],
                             generate_action_steps(c))
        /\ UNCHANGED registry

Call_generate_fallback_paths ==
    \E t \in IssueTypes :
        /\ CanCall("generate_fallback_paths")
        /\ history' = Logged("generate_fallback_paths", [issue_type |-> t],
                             generate_fallback_paths(t))
        /\ UNCHANGED registry

Call_compose_safe_response ==
    \E e \in Emotions :
        /\ CanCall("compose_safe_response")
        /\ history' = Logged("compose_safe_response", [user_emotion |-> e],
                             compose_safe_response(e))
        /\ UNCHANGED registry

\* Variant: the tool remembers that a region was collected and reports a
\* repeated collection as not collected (the docstring's 중복 방지).
Call_collect_region_context_dedup ==
    \E m \in Messages :
        /\ CanCall("collect_region_context")
        /\ history' = Logged("collect_region_context", [user_input |-> m],
                IF \E i \in DOMAIN history : history[i].tool = "collect_region_context"
                THEN Return([ collected |-> FALSE,
                              region |-> [ province |-> "Seoul-teukbyeolsi",
                                           city     |-> "Gangnam-gu",
                                           district |-> "Yeoksam-dong" ],
                              message |-> "imi jiyeok jeongboga sujipdoeeotseumnida." ])
                ELSE collect_region_context(m))
        /\ UNCHANGED registry

Call_collect_region_context ==
    \E m \in Messages :
        /\ CanCall("collect_region_context")
        /\ history' = Logged("collect_region_context", [user_input |-> m],
                             collect_region_context(m))
        /\ UNCHANGED registry

Call_reveal_policy_name_if_triggered ==
    \E m \in Messages :
        /\ CanCall("reveal_policy_name_if_triggered")
        /\ history' = Logged("reveal_policy_name_if_triggered", [message |-> m],
                             reveal_policy_name_if_triggered(m))
        /\ UNCHANGED registry

Call_suggest_followup_options ==
    \E d \in CurrentDomains :
        /\ CanCall("suggest_followup_options")
        /\ history' = Logged("suggest_followup_options", [current_domain |-> d],
                             suggest_followup_options(d))
        /\ UNCHANGED registry

Next ==
    \/ Call_orchestrate_full_response
    \/ Call_normalize_user_context
    \/ Call_assess_urgency_level
    \/ Call_expose_available_domains
    \/ Call_rank_support_cards
    \/ Call_generate_action_steps
    \/ Call_generate_fallback_paths
    \/ Call_compose_safe_response
    \/ Call_collect_region_context
    \/ Call_reveal_policy_name_if_triggered
    \/ Call_suggest_followup_options

Spec == Init /\ [][Next]_vars

\* The recorded calls of one tool.
CallsOf(tool) == { i \in DOMAIN history : history[i].tool = tool }

(***************************************************************************)
(* Properties                                                              *)
(***************************************************************************)

\* C1: for each of the 8 Domain values d, rank_support_cards(d) returns a
\* result whose domain field is d and whose cards list has exactly 2 cards,
\* titled "<d> 혜택 카드 1" and "<d> 혜택 카드 2" in that order, so that each
\* title embeds the domain name.
C1_RankCardsEmbedDomain ==
    \A i \in CallsOf("rank_support_cards") :
        LET d == history[i].args.domain
            o == history[i].outcome
        IN  d \in DomainType =>
              /\ ~o.raised
              /\ o.value.domain = d
              /\ Len(o.value.cards) = 2
              /\ o.value.cards[1].title = d \o " hyetaek kadeu 1"
              /\ o.value.cards[2].title = d \o " hyetaek kadeu 2"
              /\ \A k \in DOMAIN o.value.cards : Contains(o.value.cards[k].title, d)

\* The spec's example: rank_support_cards("주거·월세") has been called.
C1_Witness ==
    \E i \in CallsOf("rank_support_cards") :
        /\ history[i].args.domain = "jugeo-wolse"
        /\ history[i].outcome.value.cards[1].title = "jugeo-wolse hyetaek kadeu 1"
        /\ history[i].outcome.value.cards[2].title = "jugeo-wolse hyetaek kadeu 2"

\* C2: expose_available_domains always returns exactly 8 domain entries,
\* which are the 8 fixed labels without duplicates, and one smart_suggestion
\* that is itself one of the 8 entries.
C2_EightDomainsOneSuggestion ==
    \A i \in CallsOf("expose_available_domains") :
        LET o == history[i].outcome
        IN  /\ ~o.raised
            /\ Len(o.value.domains) = 8
            /\ Cardinality(Elems(o.value.domains)) = Len(o.value.domains)
            /\ Elems(o.value.domains) = DomainType
            /\ o.value.smart_suggestion \in Elems(o.value.domains)

\* expose_available_domains has been called, after some other call.
C2_Witness ==
    /\ Len(history) = MaxCalls
    /\ history[Len(history)].tool = "expose_available_domains"
    /\ history[1].tool # "expose_available_domains"
    /\ history[Len(history)].outcome.value.smart_suggestion = "jugeo-wolse"

\* C3: for every user_message and either value of skip_onboarding, the
\* result of orchestrate_full_response has all of the keys summary, domains,
\* cards, action_steps, safe_message and followup_options.
C3_OrchestrateKeys ==
    \A i \in CallsOf("orchestrate_full_response") :
        LET o == history[i].outcome
        IN  /\ ~o.raised
            /\ { "summary", "domains", "cards", "action_steps", "safe_message",
                 "followup_options" } \subseteq DOMAIN o.value

\* orchestrate_full_response has been called with an empty message and
\* skip_onboarding set, and with a non-empty message and the default flag.
C3_Witness ==
    \E i, j \in CallsOf("orchestrate_full_response") :
        /\ history[i].args = [user_message |-> "", skip_onboarding |-> TRUE]
        /\ history[j].args.user_message = "wolse jiwoni piryohaeyo"
        /\ ~history[j].args.skip_onboarding
        /\ "summary" \in DOMAIN history[i].outcome.value

C6_DisclosureGatedByTrigger ==
    \A i \in CallsOf("reveal_policy_name_if_triggered") :
        LET m == history[i].args.message
            o == history[i].outcome
        IN  /\ ~o.raised
            /\ o.value.triggered = HasTrigger(m)
            /\ ~HasTrigger(m) =>
                 \/ "policy_name" \notin DOMAIN o.value
                 \/ o.value.policy_name = ""

\* C7: for every user_message the cards list of orchestrate_full_response
\* holds 2 to 3 benefit cards, as step 3 of its docstring (혜택 카드 2-3개)
\* promises.
C7_TwoToThreeCards ==
    \A i \in CallsOf("orchestrate_full_response") :
        LET o == history[i].outcome
        IN  /\ ~o.raised
            /\ Len(o.value.cards) \in 2..3

\* C8 as stated: the result of expose_available_domains lists the 8 domains
\* and flags each of them, 5 as core and 3 as extended.  The entries of
\* `domains` are bare labels and `smart_suggestion` is one label, so a flag
\* per domain could only be carried by a further key of the result.
C8_ResultFlagsCoreExtended ==
    \A i \in CallsOf("expose_available_domains") :
        LET v == history[i].outcome.value
        IN  /\ Elems(v.domains) = DomainType
            /\ \E k \in (DOMAIN v) \ { "domains", "smart_suggestion" } :
                 v[k] = [ d \in DomainType |->
                            IF d \in Elems(CoreDomains) THEN "core" ELSE "extended" ]

\* C8 amended: the result lists the 8 domains with the docstring's 5 core
\* domains first and its 3 extended domains after them, and carries no
\* core/extended flag: its only keys are domains and smart_suggestion.
C8_CoreThenExtendedNoFlag ==
    \A i \in CallsOf("expose_available_domains") :
        LET o == history[i].outcome
        IN  /\ ~o.raised
            /\ DOMAIN o.value = { "domains", "smart_suggestion" }
            /\ o.value.domains = CoreDomains \o ExtendedDomains
            /\ Len(CoreDomains) = 5
            /\ Len(ExtendedDomains) = 3

\* expose_available_domains has been called first, and its list starts with
\* a core domain and ends with an extended one.
C8_Witness ==
    /\ Len(history) >= 1
    /\ history[1].tool = "expose_available_domains"
    /\ history[1].outcome.value.domains[1] = "jugeo-wolse"
    /\ history[1].outcome.value.domains[8] = "chamyeo-hwaldong"

\* C9 as stated: rank_support_cards rejects no domain argument and its
\* return value is independent of the input: any two calls, with in-set or
\* out-of-set arguments, return equal results.
C9_ResultIndependentOfDomain ==
    /\ \A i \in CallsOf("rank_support_cards") : ~history[i].outcome.raised
    /\ \A i, j \in CallsOf("rank_support_cards") :
           history[i].outcome = history[j].outcome

\* A rank_support_cards result with the interpolated domain taken out: the
\* domain field dropped and the domain prefix cut off each title.
WithoutDomain(v) ==
    [ keys  |-> DOMAIN v,
      cards |-> [ k \in DOMAIN v.cards |->
                    [ v.cards[k] EXCEPT
                        !.title = SubSeq(@, Len(v.domain) + 1, Len(@)) ] ] ]

\* C9 amended: rank_support_cards rejects no domain argument, in the set or
\* outside it, and its result depends on the argument only by interpolation:
\* the domain field is the argument, every card title starts with it, and
\* the rest of the result is equal for any two calls; two calls with equal
\* arguments return equal results.
C9_OnlyDomainInterpolated ==
    /\ \A i \in CallsOf("rank_support_cards") : ~history[i].outcome.raised
    /\ \A i, j \in CallsOf("rank_support_cards") :
         LET d  == history[i].args.domain
             vi == history[i].outcome.value
             vj == history[j].outcome.value
         IN  /\ vi.domain = d
             /\ \A k \in DOMAIN vi.cards :
                    SubSeq(vi.cards[k].title, 1, Len(d)) = d
             /\ WithoutDomain(vi) = WithoutDomain(vj)
             /\ (history[j].args.domain = d) => (vi = vj)

\* rank_support_cards has been called with a label of the set and with one
\* outside it, and the two results differ.
C9_Witness ==
    \E i, j \in CallsOf("rank_support_cards") :
        /\ history[i].args.domain = "jugeo-wolse"
        /\ history[j].args.domain = "gyotong"
        /\ history[j].outcome.value.domain = "gyotong"
        /\ history[i].outcome # history[j].outcome

TextTools ==
    { "orchestrate_full_response", "normalize_user_context",
      "collect_region_context", "reveal_policy_name_if_triggered",
      "generate_action_steps", "generate_fallback_paths",
      "compose_safe_response", "suggest_followup_options" }

TextArg(h) ==
    CASE h.tool = "orchestrate_full_response"       -> Some(h.args.user_message)
      [] h.tool = "normalize_user_context"          -> Some(h.args.message)
      [] h.tool = "collect_region_context"          -> Some(h.args.user_input)
      [] h.tool = "reveal_policy_name_if_triggered" -> Some(h.args.message)
      [] h.tool = "generate_action_steps"           -> h.args.selected_card
      [] h.tool = "generate_fallback_paths"         -> h.args.issue_type
      [] h.tool = "compose_safe_response"           -> h.args.user_emotion
      [] h.tool = "suggest_followup_options"        -> h.args.current_domain

\* The call passes an empty string, or leaves the optional parameter absent.
IsEmptyCall(h) == h.tool \in TextTools /\ TextArg(h) \in { None, Some("") }

\* The shape of a tool's result: its keys, the keys of every nested dict and
\* the length of every list, with the keys of the dicts a list holds.
ListShape(l) == [ k \in DOMAIN l |-> DOMAIN l[k] ]

Shape(tool, v) ==
    CASE tool = "orchestrate_full_response" ->
           [ keys |-> DOMAIN v, domains |-> Len(v.domains),
             cards |-> ListShape(v.cards), action_steps |-> DOMAIN v.action_steps,
             followup_options |-> Len(v.followup_options) ]
      [] tool = "normalize_user_context" ->
           [ keys |-> DOMAIN v, keywords |-> Len(v.keywords),
             missing_info |-> Len(v.missing_info) ]
      [] tool = "collect_region_context" ->
           [ keys |-> DOMAIN v, region |-> DOMAIN v.region ]
      [] tool = "reveal_policy_name_if_triggered" ->
           [ keys |-> DOMAIN v ]
      [] tool = "generate_action_steps" ->
           [ keys |-> DOMAIN v, today |-> Len(v.today), tomorrow |-> Len(v.tomorrow) ]
      [] tool = "generate_fallback_paths" ->
           [ keys |-> DOMAIN v,
             paths |-> [ k \in DOMAIN v |->
                           [ keys |-> DOMAIN v[k],
                             alternatives |-> Len(v[k].alternatives) ] ] ]
      [] tool = "compose_safe_response" ->
           [ keys |-> DOMAIN v, support_resources |-> Len(v.support_resources) ]
      [] tool = "suggest_followup_options" ->
           [ keys |-> DOMAIN v, followup_domains |-> ListShape(v.followup_domains) ]

\* C5: calling a tool with an empty string for its free-text argument, or
\* with its optional parameter absent, does not raise and returns a result
\* with the same keys and the same nested structure as a call of that tool
\* with a non-empty argument.
C5_EmptyCallSameShape ==
    /\ \A i \in DOMAIN history :
           history[i].tool \in TextTools => ~history[i].outcome.raised
    /\ \A i, j \in DOMAIN history :
           ( /\ IsEmptyCall(history[i])
             /\ history[j].tool = history[i].tool
             /\ ~IsEmptyCall(history[j]) )
           => Shape(history[i].tool, history[i].outcome.value)
                = Shape(history[j].tool, history[j].outcome.value)

\* generate_action_steps has been called without its optional argument and
\* with a selected card.
C5_Witness ==
    \E i, j \in CallsOf("generate_action_steps") :
        /\ history[i].args.selected_card = None
        /\ history[j].args.selected_card = Some("hyetaek kadeu 1")
        /\ IsEmptyCall(history[i])
        /\ ~IsEmptyCall(history[j])
        /\ ~history[i].outcome.raised

====
